---------------------------- MODULE Spec2Model ----------------------------
(* Model of rollup/src/transaction.rs: TransactionVar::new_variable and      *)
(* TransactionVar::validate, with the gadgets they call (Schnorr signature  *)
(* verification, Merkle membership, checked arithmetic on amounts, byte     *)
(* encodings), which live in crate::account, crate::ledger and              *)
(* ark_simple_payments, modelled from their documented contracts.           *)
(*                                                                          *)
(* Two specifications:                                                      *)
(*   SpecAlloc - AllocVar::new_variable for a plain Transaction;            *)
(*   Spec      - validate on an allocated TransactionVar.                   *)
EXTENDS Integers, Sequences, FiniteSets, TLC

VARIABLES
    tx,         \* the plain Transaction handed to new_variable
    mode,       \* the AllocationMode handed to new_variable
    self,       \* the TransactionVar (fields allocated so far)
    alloc,      \* outcome of new_variable: [tag, returned]
    args,       \* the arguments of validate
    local,      \* the let-bindings of validate
    result,     \* the Result<Boolean, SynthesisError> of validate
    cs,         \* the ambient constraint system: [satisfied, trace, checks]
    primFailed, \* the primitives that returned a SynthesisError so far
    pc          \* position inside new_variable / validate

vars == <<tx, mode, self, alloc, args, local, result, cs, primFailed, pc>>

-----------------------------------------------------------------------------
(* Bounds and domains *)

\* Largest value of the (scaled-down, two-bit) Amount type; arithmetic is checked
\* against it the way AmountVar checks against the top of its UInt64.
MaxAmount == 3

Amounts == 0..MaxAmount
AmountModulus == MaxAmount + 1

\* The ledger of the model is a two-leaf tree: account id = leaf position.
AccountIds == {0, 1}

\* Public keys; account i of the honest ledger owns key i + 1.
PubKeys == {1, 2}
KeyOf(id) == id + 1

\* Encodings are little-endian digit strings of fixed width.
ByteBase == 2
IdBytes == 1
PubKeyBytes == 2

RECURSIVE WidthOf(_)
WidthOf(n) == IF n < ByteBase THEN 1 ELSE 1 + WidthOf(n \div ByteBase)
AmountBytes == WidthOf(MaxAmount)

Modes == {"Constant", "Input", "Witness"}

-----------------------------------------------------------------------------
(* Gadgets consumed by transaction.rs *)

RECURSIVE Pow(_, _)
Pow(b, e) == IF e = 0 THEN 1 ELSE b * Pow(b, e - 1)

\* ToBytes: the little-endian encoding of n on w digits.
to_bytes_le(n, w) == [i \in 1..w |-> (n \div Pow(ByteBase, i - 1)) % ByteBase]

AccountIdVar_to_bytes_le(id) == to_bytes_le(id, IdBytes)
AmountVar_to_bytes_le(a) == to_bytes_le(a, AmountBytes)
AccountPublicKeyVar_to_bytes_le(pk) == to_bytes_le(pk, PubKeyBytes)

\* AccountInformationVar::to_bytes_le: public key bytes, then balance bytes.
AccountInformationVar_to_bytes_le(info) ==
    AccountPublicKeyVar_to_bytes_le(info.public_key)
        \o AmountVar_to_bytes_le(info.balance)

\* Schnorr signing, idealised: a signature names the key pair that made it and
\* the message it was made over, and cannot be forged for anything else.
Sign(pk, message) == [signer |-> pk, message |-> message]

SchnorrSignatureVerifyGadget_verify(pub_key, message, signature) ==
    signature.signer = pub_key /\ signature.message = message

\* Collision-free leaf and two-to-one hashes of the account tree.
LeafCRH(bytes) == [leaf |-> bytes]
TwoToOneCRH(l, r) == [left |-> l, right |-> r]

\* PathVar::verify_membership for the two-leaf tree: hash the leaf, combine it
\* with the sibling on the side the path says, compare with the root.
verify_membership(path, root, leaf) ==
    LET h == LeafCRH(leaf)
    IN  root = IF path.is_right THEN TwoToOneCRH(path.sibling, h)
                                ELSE TwoToOneCRH(h, path.sibling)

\* AmountVar::checked_sub: the difference, with a constraint that no witness
\* satisfies when other > self (the value is then the wrapped difference).
AmountVar_checked_sub(a, other) ==
    [value |-> (a - other + AmountModulus) % AmountModulus,
     satisfied |-> other <= a]

\* AmountVar::checked_add: the sum, with a constraint that no witness
\* satisfies when the sum exceeds the type's maximum.
AmountVar_checked_add(a, other) ==
    [value |-> (a + other) % AmountModulus,
     satisfied |-> a + other <= MaxAmount]

-----------------------------------------------------------------------------
(* Ledger states from which callers build the arguments of validate *)

Infos == [public_key : PubKeys, balance : Amounts]

\* The account tree holding balances bal, account i under key KeyOf(i).
TreeOf(bal) == [i \in AccountIds |-> [public_key |-> KeyOf(i), balance |-> bal[i]]]

RootOf(tree) ==
    TwoToOneCRH(LeafCRH(AccountInformationVar_to_bytes_le(tree[0])),
                LeafCRH(AccountInformationVar_to_bytes_le(tree[1])))

PathOf(tree, pos) ==
    [is_right |-> (pos = 1),
     sibling |-> LeafCRH(AccountInformationVar_to_bytes_le(tree[1 - pos]))]

PathNames == {"pre_sender_path", "post_sender_path",
              "pre_recipient_path", "post_recipient_path"}

\* The message a wallet signs to authorise a transfer: the encodings of the
\* sender id, the recipient id and the amount, in this order.
WalletMessage(s, r, a) ==
    to_bytes_le(s, IdBytes) \o to_bytes_le(r, IdBytes) \o to_bytes_le(a, AmountBytes)

\* How the signature of a transaction can relate to the transaction.
SigKinds == {"honest", "other_signer", "other_sender", "other_recipient",
             "other_amount"}

-----------------------------------------------------------------------------
(* transaction.rs *)

\* signed_message with the two account ids in the other order.
signed_message_swapped(sender, recipient, amount) ==
    AccountIdVar_to_bytes_le(recipient)
        \o AccountIdVar_to_bytes_le(sender)
        \o AmountVar_to_bytes_le(amount)

\* The message built in verify_signature.
signed_message(sender, recipient, amount) ==
    AccountIdVar_to_bytes_le(sender)
        \o AccountIdVar_to_bytes_le(recipient)
        \o AmountVar_to_bytes_le(amount)

\* The boolean verify_signature returns for the message it built.
verify_signature(t, pub_key, message) ==
    SchnorrSignatureVerifyGadget_verify(pub_key, message, t.signature.value)

check_account_existence(account_path, account, root) ==
    verify_membership(account_path, root, AccountInformationVar_to_bytes_le(account))

\* The signature a wallet produces for (sender, recipient, amount) under pk.
SignatureFor(kind, s, r, a, pk) ==
    CASE kind = "honest" -> Sign(pk, WalletMessage(s, r, a))
      [] kind = "other_signer" -> Sign(3 - pk, WalletMessage(s, r, a))
      [] kind = "other_sender" -> Sign(pk, WalletMessage(1 - s, r, a))
      [] kind = "other_recipient" -> Sign(pk, WalletMessage(s, 1 - r, a))
      [] kind = "other_amount" ->
            Sign(pk, WalletMessage(s, r, (a + 1) % AmountModulus))

Transactions ==
    { [sender |-> s, recipient |-> r, amount |-> a,
       signature |-> SignatureFor(k, s, r, a, KeyOf(s))] :
        s \in AccountIds, r \in AccountIds, a \in Amounts, k \in SigKinds }

NoSignature == [signer |-> 0, message |-> <<>>]
Unallocated(v) == [value |-> v, mode |-> "none"]
NoVar == [sender |-> Unallocated(0), recipient |-> Unallocated(0),
          amount |-> Unallocated(0), signature |-> Unallocated(NoSignature)]

Var(v, m) == [value |-> v, mode |-> m]

NoInfo == [public_key |-> 0, balance |-> 0]
NoLocal ==
    [message |-> <<>>,
     sig_verifies |-> FALSE,
     post_sender_acc_info |-> NoInfo,
     post_recipient_acc_info |-> NoInfo,
     sender_existed |-> FALSE, sender_will_exist |-> FALSE,
     sender_exists |-> FALSE,
     recipient_existed |-> FALSE, recipient_will_exist |-> FALSE,
     recipient_exists |-> FALSE]

Pending == [tag |-> "pending", value |-> FALSE]
Ok(b) == [tag |-> "Ok", value |-> b]
Err == [tag |-> "Err", value |-> FALSE]

EmptyCS == [satisfied |-> TRUE, trace |-> <<>>, checks |-> <<>>]

NoPath == [is_right |-> FALSE, sibling |-> LeafCRH(<<>>)]
NoRoot == TwoToOneCRH(LeafCRH(<<>>), LeafCRH(<<>>))
NoArgs ==
    [pre_sender_acc_info |-> NoInfo, pre_sender_path |-> NoPath,
     post_sender_path |-> NoPath,
     pre_recipient_acc_info |-> NoInfo, pre_recipient_path |-> NoPath,
     post_recipient_path |-> NoPath,
     pre_root |-> NoRoot, post_root |-> NoRoot]

-----------------------------------------------------------------------------
(* AllocVar<Transaction> for TransactionVar: new_variable *)

InitAlloc ==
    /\ tx \in Transactions
    /\ mode \in Modes
    /\ self = NoVar
    /\ alloc = [tag |-> "pending", returned |-> NoVar]
    /\ args = NoArgs
    /\ local = NoLocal
    /\ result = Pending
    /\ cs = EmptyCS
    /\ primFailed = {}
    /\ pc = "f"

\* `?` on a failed allocation: new_variable returns Err and no TransactionVar.
AllocAbort(prim) ==
    /\ alloc' = [tag |-> "Err", returned |-> NoVar]
    /\ primFailed' = primFailed \cup {prim}
    /\ pc' = "alloc_done"
    /\ UNCHANGED <<self, cs>>

\* One field allocation `X::new_variable(cs.clone(), || Ok(&tx.field), mode)?`.
AllocField(field, m, next) ==
    /\ pc = field
    /\ \E ok \in BOOLEAN :
        IF ok
        THEN /\ self' = [self EXCEPT ![field] = Var(tx[field], m)]
             /\ cs' = [cs EXCEPT !.trace = Append(@, field)]
             /\ pc' = next
             /\ UNCHANGED <<alloc, primFailed>>
        ELSE AllocAbort(field)
    /\ UNCHANGED <<tx, mode, args, local, result>>

\* f().and_then(...): the value provider runs first; its error is returned.
Provider ==
    /\ pc = "f"
    /\ \E ok \in BOOLEAN :
        IF ok
        THEN /\ pc' = "sender"
             /\ UNCHANGED <<self, alloc, cs, primFailed>>
        ELSE AllocAbort("f")
    /\ UNCHANGED <<tx, mode, args, local, result>>

AllocSender == AllocField("sender", mode, "recipient")

AllocRecipient == AllocField("recipient", mode, "amount")

\* AllocAmount with a hard-wired mode instead of the caller's.
AllocAmount_Witness == AllocField("amount", "Witness", "signature")

AllocAmount == AllocField("amount", mode, "signature")

AllocSignature == AllocField("signature", mode, "Ok")

\* Ok(Self { sender, recipient, amount, signature })
ReturnSelf ==
    /\ pc = "Ok"
    /\ alloc' = [tag |-> "Ok", returned |-> self]
    /\ pc' = "alloc_done"
    /\ UNCHANGED <<tx, mode, self, args, local, result, cs, primFailed>>

NextAlloc ==
    \/ Provider
    \/ AllocSender
    \/ AllocRecipient
    \/ AllocAmount
    \/ AllocSignature
    \/ ReturnSelf

SpecAlloc == InitAlloc /\ [][NextAlloc]_vars

-----------------------------------------------------------------------------
(* TransactionVar::validate *)

\* The arguments a caller builds from a pre-state ledger, a claimed post-state
\* ledger and the transaction; `tamper` names the path (if any) taken at the
\* other leaf position.
ArgsFor(t, preBal, postBal, tamper) ==
    LET pre == TreeOf(preBal)
        post == TreeOf(postBal)
        pos(name, p) == IF tamper = name THEN 1 - p ELSE p
    IN  [pre_sender_acc_info |-> pre[t.sender],
         pre_sender_path |-> PathOf(pre, pos("pre_sender_path", t.sender)),
         post_sender_path |-> PathOf(post, pos("post_sender_path", t.sender)),
         pre_recipient_acc_info |-> pre[t.recipient],
         pre_recipient_path |->
             PathOf(pre, pos("pre_recipient_path", t.recipient)),
         post_recipient_path |->
             PathOf(post, pos("post_recipient_path", t.recipient)),
         pre_root |-> RootOf(pre),
         post_root |-> RootOf(post)]

\* The balances a claimed post-state ledger can hold: the sender's debit and
\* the recipient's credit (as the Amount type holds them) are each applied to
\* the pre-state balances or left out.
PostBalances(t, preBal) ==
    { LET debited == IF debit
                     THEN [preBal EXCEPT
                              ![t.sender] = (@ - t.amount) % AmountModulus]
                     ELSE preBal
      IN  IF credit
          THEN [debited EXCEPT ![t.recipient] = (@ + t.amount) % AmountModulus]
          ELSE debited : debit \in BOOLEAN, credit \in BOOLEAN }

AllocatedAs(t, m) ==
    [sender |-> Var(t.sender, m), recipient |-> Var(t.recipient, m),
     amount |-> Var(t.amount, m), signature |-> Var(t.signature, m)]

Init ==
    /\ tx \in Transactions
    /\ mode = "Witness"
    /\ self = AllocatedAs(tx, mode)
    /\ alloc = [tag |-> "Ok", returned |-> self]
    /\ \E preBal \in [AccountIds -> Amounts], tamper \in PathNames \cup {"none"} :
          \E postBal \in PostBalances(tx, preBal) :
              args = ArgsFor(tx, preBal, postBal, tamper)
    /\ local = NoLocal
    /\ result = Pending
    /\ cs = EmptyCS
    /\ primFailed = {}
    /\ pc = "sig_verifies"

\* `?` on a SynthesisError of a primitive: validate returns the error.
Abort(prim) ==
    /\ result' = Err
    /\ primFailed' = primFailed \cup {prim}
    /\ pc' = "done"
    /\ UNCHANGED <<local, cs>>

\* One `let x = gadget(...)?;` of validate: the gadget either fails, or binds
\* x, adds its constraints (satisfiable by the witness iff sat) and, for a
\* membership check, records the (path, account, root) it was applied to.
Bind(x, next, newLocal, sat, check) ==
    /\ pc = x
    /\ \E ok \in BOOLEAN :
        IF ok
        THEN /\ local' = newLocal
             /\ cs' = [satisfied |-> cs.satisfied /\ sat,
                       trace |-> Append(cs.trace, x),
                       checks |-> cs.checks \o check]
             /\ pc' = next
             /\ UNCHANGED <<result, primFailed>>
        ELSE Abort(x)
    /\ UNCHANGED <<tx, mode, self, alloc, args>>

Check(path, account, root) == <<[path |-> path, account |-> account, root |-> root]>>

\* The bindings made by the verify_signature call for the boolean v.
SigLocal(v) ==
    [local EXCEPT
        !.message = signed_message(self.sender.value, self.recipient.value,
                                   self.amount.value),
        !.sig_verifies = v]

\* VerifySignature that aborts on an invalid signature instead of binding false.
VerifySignature_Enforced ==
    LET v == verify_signature(self, args.pre_sender_acc_info.public_key,
                              signed_message(self.sender.value,
                                             self.recipient.value,
                                             self.amount.value))
    IN  IF v
        THEN Bind("sig_verifies", "post_sender_acc_info", SigLocal(v), TRUE, <<>>)
        ELSE /\ pc = "sig_verifies"
             /\ result' = Err
             /\ pc' = "done"
             /\ UNCHANGED <<tx, mode, self, alloc, args, local, cs, primFailed>>

\* VerifySignature that also refuses a transfer from an account to itself.
VerifySignature_RejectSelfTransfer ==
    Bind("sig_verifies", "post_sender_acc_info",
         SigLocal(verify_signature(self, args.pre_sender_acc_info.public_key,
                                   signed_message(self.sender.value,
                                                  self.recipient.value,
                                                  self.amount.value))
                  /\ self.sender.value # self.recipient.value),
         TRUE, <<>>)

\* let sig_verifies = self.verify_signature(&parameters.sig_params,
\*                                          &pre_sender_acc_info.public_key)?;
VerifySignature ==
    Bind("sig_verifies", "post_sender_acc_info",
         SigLocal(verify_signature(self, args.pre_sender_acc_info.public_key,
                                   signed_message(self.sender.value,
                                                  self.recipient.value,
                                                  self.amount.value))),
         TRUE, <<>>)

\* ComputeSenderBalance with a wrapping subtraction (no underflow constraint).
ComputeSenderBalance_Wrapping ==
    LET r == AmountVar_checked_sub(args.pre_sender_acc_info.balance,
                                   self.amount.value)
    IN  Bind("post_sender_acc_info", "post_recipient_acc_info",
             [local EXCEPT !.post_sender_acc_info =
                 [args.pre_sender_acc_info EXCEPT !.balance = r.value]],
             TRUE, <<>>)

\* post_sender_acc_info = pre_sender_acc_info.clone();
\* post_sender_acc_info.balance = ....balance.checked_sub(&self.amount)?;
ComputeSenderBalance ==
    LET r == AmountVar_checked_sub(args.pre_sender_acc_info.balance,
                                   self.amount.value)
    IN  Bind("post_sender_acc_info", "post_recipient_acc_info",
             [local EXCEPT !.post_sender_acc_info =
                 [args.pre_sender_acc_info EXCEPT !.balance = r.value]],
             r.satisfied, <<>>)

\* ComputeRecipientBalance with a wrapping addition (no overflow constraint).
ComputeRecipientBalance_Wrapping ==
    LET r == AmountVar_checked_add(args.pre_recipient_acc_info.balance,
                                   self.amount.value)
    IN  Bind("post_recipient_acc_info", "sender_existed",
             [local EXCEPT !.post_recipient_acc_info =
                 [args.pre_recipient_acc_info EXCEPT !.balance = r.value]],
             TRUE, <<>>)

\* post_recipient_acc_info = pre_recipient_acc_info.clone();
\* post_recipient_acc_info.balance = ....balance.checked_add(&self.amount)?;
ComputeRecipientBalance ==
    LET r == AmountVar_checked_add(args.pre_recipient_acc_info.balance,
                                   self.amount.value)
    IN  Bind("post_recipient_acc_info", "sender_existed",
             [local EXCEPT !.post_recipient_acc_info =
                 [args.pre_recipient_acc_info EXCEPT !.balance = r.value]],
             r.satisfied, <<>>)

CheckSenderExisted ==
    Bind("sender_existed", "sender_will_exist",
         [local EXCEPT !.sender_existed =
             check_account_existence(args.pre_sender_path,
                                     args.pre_sender_acc_info, args.pre_root)],
         TRUE,
         Check(args.pre_sender_path, args.pre_sender_acc_info, args.pre_root))

\* CheckSenderWillExist against the pre-transaction root.
CheckSenderWillExist_PreRoot ==
    Bind("sender_will_exist", "sender_exists",
         [local EXCEPT !.sender_will_exist =
             check_account_existence(args.post_sender_path,
                                     local.post_sender_acc_info, args.pre_root)],
         TRUE,
         Check(args.post_sender_path, local.post_sender_acc_info, args.pre_root))

\* CheckSenderWillExist over the pre-transaction leaf instead of the derived one.
CheckSenderWillExist_PreLeaf ==
    Bind("sender_will_exist", "sender_exists",
         [local EXCEPT !.sender_will_exist =
             check_account_existence(args.post_sender_path,
                                     args.pre_sender_acc_info, args.post_root)],
         TRUE,
         Check(args.post_sender_path, args.pre_sender_acc_info, args.post_root))

CheckSenderWillExist ==
    Bind("sender_will_exist", "sender_exists",
         [local EXCEPT !.sender_will_exist =
             check_account_existence(args.post_sender_path,
                                     local.post_sender_acc_info, args.post_root)],
         TRUE,
         Check(args.post_sender_path, local.post_sender_acc_info, args.post_root))

\* let sender_exists = sender_existed.and(&sender_will_exist)?;
AndSender ==
    Bind("sender_exists", "recipient_existed",
         [local EXCEPT !.sender_exists =
             local.sender_existed /\ local.sender_will_exist],
         TRUE, <<>>)

\* CheckRecipientExisted that skips the recipient's checks once the sender's
\* conjunction is false (an early exit on a false value).
CheckRecipientExisted_ShortCircuit ==
    IF local.sender_exists
    THEN Bind("recipient_existed", "recipient_will_exist",
              [local EXCEPT !.recipient_existed =
                  check_account_existence(args.pre_recipient_path,
                                          args.pre_recipient_acc_info,
                                          args.pre_root)],
              TRUE,
              Check(args.pre_recipient_path, args.pre_recipient_acc_info,
                    args.pre_root))
    ELSE Bind("recipient_existed", "result", local, TRUE, <<>>)

CheckRecipientExisted ==
    Bind("recipient_existed", "recipient_will_exist",
         [local EXCEPT !.recipient_existed =
             check_account_existence(args.pre_recipient_path,
                                     args.pre_recipient_acc_info, args.pre_root)],
         TRUE,
         Check(args.pre_recipient_path, args.pre_recipient_acc_info,
               args.pre_root))

CheckRecipientWillExist ==
    Bind("recipient_will_exist", "recipient_exists",
         [local EXCEPT !.recipient_will_exist =
             check_account_existence(args.post_recipient_path,
                                     local.post_recipient_acc_info,
                                     args.post_root)],
         TRUE,
         Check(args.post_recipient_path, local.post_recipient_acc_info,
               args.post_root))

\* let recipient_exists = recipient_existed.and(&recipient_will_exist)?;
AndRecipient ==
    Bind("recipient_exists", "result",
         [local EXCEPT !.recipient_exists =
             local.recipient_existed /\ local.recipient_will_exist],
         TRUE, <<>>)

\* FinalAnd that leaves the signature out of the conjunction.
FinalAnd_NoSignature ==
    /\ pc = "result"
    /\ \E ok \in BOOLEAN :
        IF ok
        THEN /\ result' = Ok(local.sender_exists /\ local.recipient_exists)
             /\ cs' = [cs EXCEPT !.trace = Append(@, "result")]
             /\ pc' = "done"
             /\ UNCHANGED <<local, primFailed>>
        ELSE Abort("result")
    /\ UNCHANGED <<tx, mode, self, alloc, args>>

\* sender_exists.and(&recipient_exists)?.and(&sig_verifies)
FinalAnd ==
    /\ pc = "result"
    /\ \E ok \in BOOLEAN :
        IF ok
        THEN /\ result' = Ok((local.sender_exists /\ local.recipient_exists)
                                /\ local.sig_verifies)
             /\ cs' = [cs EXCEPT !.trace = Append(@, "result")]
             /\ pc' = "done"
             /\ UNCHANGED <<local, primFailed>>
        ELSE Abort("result")
    /\ UNCHANGED <<tx, mode, self, alloc, args>>

Next ==
    \/ VerifySignature
    \/ ComputeSenderBalance
    \/ ComputeRecipientBalance
    \/ CheckSenderExisted
    \/ CheckSenderWillExist
    \/ AndSender
    \/ CheckRecipientExisted
    \/ CheckRecipientWillExist
    \/ AndRecipient
    \/ FinalAnd

Spec == Init /\ [][Next]_vars

-----------------------------------------------------------------------------
(* The quantities the claims speak about, evaluated from the inputs of       *)
(* validate alone (not from what validate bound).                           *)

Sender == self.sender.value
Recipient == self.recipient.value
Amount == self.amount.value
PreSender == args.pre_sender_acc_info
PreRecipient == args.pre_recipient_acc_info

Did(x) == \E i \in DOMAIN cs.trace : cs.trace[i] = x
IndexOf(x) == CHOOSE i \in DOMAIN cs.trace : cs.trace[i] = x

Returned == pc = "done" /\ result.tag = "Ok"

\* The path proves the leaf under the root.
Proves(path, leaf, root) ==
    verify_membership(path, root, AccountInformationVar_to_bytes_le(leaf))

\* The leaves validate is to derive (balances as the Amount type holds them).
UpdatedSender ==
    [public_key |-> PreSender.public_key,
     balance |-> (PreSender.balance - Amount) % AmountModulus]
UpdatedRecipient ==
    [public_key |-> PreRecipient.public_key,
     balance |-> (PreRecipient.balance + Amount) % AmountModulus]

SenderPre == Proves(args.pre_sender_path, PreSender, args.pre_root)
SenderPost == Proves(args.post_sender_path, UpdatedSender, args.post_root)
RecipientPre == Proves(args.pre_recipient_path, PreRecipient, args.pre_root)
RecipientPost == Proves(args.post_recipient_path, UpdatedRecipient, args.post_root)

\* sender id, then recipient id, then amount, and nothing else.
ThreeFieldMessage(s, r, a) ==
    to_bytes_le(s, IdBytes) \o to_bytes_le(r, IdBytes) \o to_bytes_le(a, AmountBytes)

SignatureValid ==
    /\ self.signature.value.signer = PreSender.public_key
    /\ self.signature.value.message = ThreeFieldMessage(Sender, Recipient, Amount)

BalanceSufficient == Amount <= PreSender.balance
NoOverflow == PreRecipient.balance + Amount <= MaxAmount

-----------------------------------------------------------------------------
(* Claims *)

\* C1: whenever validate returns a boolean, it equals the conjunction of the
\* sender's pre- and post-state membership, the recipient's pre- and
\* post-state membership and the signature's validity.
C1_ResultIsConjunction ==
    Returned =>
        result.value = (/\ SenderPre /\ SenderPost
                        /\ RecipientPre /\ RecipientPost
                        /\ SignatureValid)

\* A returned false whose only failing check is the signature.
C1_Witness ==
    /\ Returned
    /\ SenderPre /\ SenderPost /\ RecipientPre /\ RecipientPost
    /\ ~SignatureValid
    /\ result.value = FALSE

\* C2: for every valid transaction (sufficient balance, no overflow, correct
\* signature, pre paths proving the pre leaves, post paths proving the leaves
\* with balance - amount and balance + amount) validate returns true, and the
\* leaves it derived carry exactly those balances.
ValidTransaction ==
    /\ BalanceSufficient
    /\ NoOverflow
    /\ SignatureValid
    /\ SenderPre
    /\ RecipientPre
    /\ Proves(args.post_sender_path,
              [PreSender EXCEPT !.balance = PreSender.balance - Amount],
              args.post_root)
    /\ Proves(args.post_recipient_path,
              [PreRecipient EXCEPT !.balance = PreRecipient.balance + Amount],
              args.post_root)

C2_ValidAccepted ==
    (Returned /\ ValidTransaction) =>
        /\ result.value = TRUE
        /\ cs.satisfied
        /\ local.post_sender_acc_info.balance = PreSender.balance - Amount
        /\ local.post_recipient_acc_info.balance = PreRecipient.balance + Amount

\* A valid transfer of a positive amount between two accounts, accepted.
C2_Witness ==
    /\ Returned
    /\ ValidTransaction
    /\ Sender # Recipient
    /\ PreSender.balance = 2 /\ PreRecipient.balance = 0 /\ Amount = 1
    /\ local.post_sender_acc_info.balance = 1
    /\ local.post_recipient_acc_info.balance = 1
    /\ result.value = TRUE

\* C3: once the sender's balance is derived, amount > balance has made the
\* constraint system unsatisfiable; amount <= balance (amount = balance
\* included) gives exactly balance - amount under the same public key and
\* leaves the system satisfiable.
C3_CheckedSub ==
    Did("post_sender_acc_info") =>
        IF Amount > PreSender.balance
        THEN ~cs.satisfied
        ELSE /\ local.post_sender_acc_info =
                    [PreSender EXCEPT !.balance = PreSender.balance - Amount]
             /\ (pc = "post_recipient_acc_info" => cs.satisfied)

\* amount = balance + 1 went through the subtraction and is rejected.
C3_Witness ==
    /\ pc = "done"
    /\ Did("post_sender_acc_info")
    /\ Amount = PreSender.balance + 1
    /\ ~cs.satisfied

\* C4: once the recipient's balance is derived, balance + amount above the
\* Amount maximum has made the constraint system unsatisfiable; otherwise the
\* derived leaf is the pre leaf with balance + amount, and the addition
\* leaves the system as satisfiable as the subtraction left it.
C4_CheckedAdd ==
    Did("post_recipient_acc_info") =>
        IF PreRecipient.balance + Amount > MaxAmount
        THEN ~cs.satisfied
        ELSE /\ local.post_recipient_acc_info =
                    [PreRecipient EXCEPT !.balance = PreRecipient.balance + Amount]
             /\ (cs.satisfied <=> BalanceSufficient)

\* An addition that would pass the maximum, with a sufficient sender balance.
C4_Witness ==
    /\ pc = "done"
    /\ Did("post_recipient_acc_info")
    /\ BalanceSufficient
    /\ PreRecipient.balance + Amount = MaxAmount + 1
    /\ ~cs.satisfied

C6_FailureIsFalse ==
    pc = "done" =>
        /\ (result.tag = "Err") <=> (primFailed # {})
        /\ (result.tag = "Ok") <=> (primFailed = {})
        /\ (primFailed = {} /\ ~(/\ SenderPre /\ SenderPost /\ RecipientPre
                                 /\ RecipientPost /\ SignatureValid))
              => result = Ok(FALSE)
        /\ (primFailed = {} /\ BalanceSufficient /\ NoOverflow) => cs.satisfied

\* An invalid signature and a broken path: Ok(false), system still satisfiable.
C6_Witness ==
    /\ pc = "done"
    /\ primFailed = {}
    /\ ~SignatureValid
    /\ ~SenderPost
    /\ BalanceSufficient /\ NoOverflow
    /\ result = Ok(FALSE)
    /\ cs.satisfied

\* C7: if the post-sender path does not prove the derived leaf (pre-sender
\* key, balance - amount) under post_root, validate returns false.
C7_PostSenderPath ==
    (/\ Returned
     /\ BalanceSufficient
     /\ ~Proves(args.post_sender_path,
                [PreSender EXCEPT !.balance = PreSender.balance - Amount],
                args.post_root))
        => result.value = FALSE

\* Everything else holds, only the post-sender membership fails.
C7_Witness ==
    /\ Returned
    /\ BalanceSufficient /\ NoOverflow /\ Amount > 0
    /\ SignatureValid /\ SenderPre /\ RecipientPre /\ RecipientPost
    /\ ~SenderPost
    /\ result.value = FALSE

\* C8: new_variable allocates every field with the caller's mode, fails
\* exactly when the value provider or one of the four field allocations
\* fails, and returns no TransactionVar on failure.
AllocPrimitives == {"f", "sender", "recipient", "amount", "signature"}
FieldNames == {"sender", "recipient", "amount", "signature"}

C8_Allocation ==
    /\ \A f \in FieldNames : self[f].mode \in {"none", mode}
    /\ primFailed \subseteq AllocPrimitives
    /\ pc = "alloc_done" =>
        /\ (alloc.tag = "Err") <=> (primFailed # {})
        /\ alloc.tag = "Err" => alloc.returned = NoVar
        /\ alloc.tag = "Ok" =>
              \A f \in FieldNames : alloc.returned[f] = Var(tx[f], mode)

\* A self-transfer with a signature that does not verify, allocated as public
\* input without error.
C8_Witness ==
    /\ pc = "alloc_done"
    /\ alloc.tag = "Ok"
    /\ mode = "Input"
    /\ tx.sender = tx.recipient
    /\ tx.signature.signer # KeyOf(tx.sender)
    /\ \A f \in FieldNames : alloc.returned[f].mode = "Input"

\* C9: a completed validate has made exactly the four membership checks, on
\* the pre leaves under pre_root and on the derived leaves under post_root;
\* both balances are derived before a post-state check runs; and all of it
\* happens whatever the earlier checks returned.
C9_FourChecks ==
    /\ (Did("sender_will_exist") \/ Did("recipient_will_exist")) =>
          /\ Did("post_sender_acc_info") /\ Did("post_recipient_acc_info")
          /\ IndexOf("post_sender_acc_info") < IndexOf("sender_will_exist")
          /\ IndexOf("post_recipient_acc_info") < IndexOf("sender_will_exist")
    /\ Returned =>
          /\ Did("sig_verifies")
          /\ Len(cs.checks) = 4
          /\ cs.checks =
                <<[path |-> args.pre_sender_path, account |-> PreSender,
                   root |-> args.pre_root],
                  [path |-> args.post_sender_path, account |-> UpdatedSender,
                   root |-> args.post_root],
                  [path |-> args.pre_recipient_path, account |-> PreRecipient,
                   root |-> args.pre_root],
                  [path |-> args.post_recipient_path,
                   account |-> UpdatedRecipient, root |-> args.post_root]>>

\* The signature and the first membership check are false, and the remaining
\* checks were still made.
C9_Witness ==
    /\ Returned
    /\ ~local.sig_verifies
    /\ ~local.sender_existed
    /\ Len(cs.checks) = 4
    /\ args.pre_root # args.post_root

=============================================================================
